---- MODULE Spec2Model ----
(***************************************************************************)
(* Personal Movie List (src/app.py): the CSV record store, the field       *)
(* validators, the user-scoped CRUD operations and the session handlers.   *)
(*                                                                         *)
(* A text is a sequence of characters; a character is a short string.      *)
(* Characters outside ASCII are written by their code point ("U+0668").    *)
(* The csv module is a library: the movie store is modelled as the         *)
(* sequence of rows csv.DictReader yields, a column missing from a short   *)
(* row being None.                                                         *)
(***************************************************************************)
EXTENDS Integers, Sequences, FiniteSets, TLC

(***************************************************************************)
(* Bounds of the exploration.                                              *)
(***************************************************************************)
\* longest text typed at a validator prompt
MaxLen == 4
\* most rows the store holds when the CRUD functions are called directly
MaxRows == 3
\* most calls of add_movie in a run of adds
MaxAdds == 3
\* most rows the store holds during sessions
MaxSessRows == 2

(***************************************************************************)
(* Program constants (src/app.py:19-22).                                   *)
(***************************************************************************)
MIN_YEAR == 1888
MAX_YEAR == 2100
MIN_RATING == 0
MAX_RATING == 10

(***************************************************************************)
(* Characters and the str methods the program uses.                        *)
(***************************************************************************)
AsciiDigits == {"0", "1", "2", "3", "4", "5", "6", "7", "8", "9"}
\* U+0668 ARABIC-INDIC DIGIT EIGHT: category Nd, str.isdigit() and int() take it
ArabicEight == "U+0668"
\* U+00B2 SUPERSCRIPT TWO: category No, str.isdigit() is True, int() raises
SuperTwo == "U+00B2"
DecimalDigits == AsciiDigits \cup {ArabicEight}
Whitespace == {" "}

DigitChars == <<"0", "1", "2", "3", "4", "5", "6", "7", "8", "9">>

\* the decimal value of a character of category Nd
DigitVal(c) ==
  IF c = ArabicEight THEN 8
  ELSE CHOOSE d \in 0..9 : DigitChars[d + 1] = c

LowerLetters ==
  <<"a", "b", "c", "d", "e", "f", "g", "h", "i", "j", "k", "l", "m",
    "n", "o", "p", "q", "r", "s", "t", "u", "v", "w", "x", "y", "z">>
UpperLetters ==
  <<"A", "B", "C", "D", "E", "F", "G", "H", "I", "J", "K", "L", "M",
    "N", "O", "P", "Q", "R", "S", "T", "U", "V", "W", "X", "Y", "Z">>

ToUpper ==
  [c \in {LowerLetters[i] : i \in 1..26} |->
     UpperLetters[CHOOSE i \in 1..26 : LowerLetters[i] = c]]
ToLower ==
  [c \in {UpperLetters[i] : i \in 1..26} |->
     LowerLetters[CHOOSE i \in 1..26 : UpperLetters[i] = c]]

\* str.upper() on one character
UpperChar(c) == IF c \in DOMAIN ToUpper THEN ToUpper[c] ELSE c

\* str.lower() on one character
LowerChar(c) == IF c \in DOMAIN ToLower THEN ToLower[c] ELSE c

Upper(t) == [i \in 1..Len(t) |-> UpperChar(t[i])]
Lower(t) == [i \in 1..Len(t) |-> LowerChar(t[i])]

RECURSIVE LStrip(_)
LStrip(t) ==
  IF t # <<>> /\ Head(t) \in Whitespace THEN LStrip(Tail(t)) ELSE t

RECURSIVE RStrip(_)
RStrip(t) ==
  IF t # <<>> /\ t[Len(t)] \in Whitespace
  THEN RStrip(SubSeq(t, 1, Len(t) - 1))
  ELSE t

\* str.strip()
Strip(t) == RStrip(LStrip(t))

\* str.isdigit(): non-empty, every character has Numeric_Type Digit or Decimal
IsDigit(t) ==
  /\ t # <<>>
  /\ \A i \in 1..Len(t) : t[i] \in DecimalDigits \cup {SuperTwo}

\* the value of a run of decimal digits
RECURSIVE DigitsValue(_)
DigitsValue(t) ==
  IF t = <<>> THEN 0
  ELSE 10 * DigitsValue(SubSeq(t, 1, Len(t) - 1)) + DigitVal(t[Len(t)])

\* int(v) on a text already known to be non-empty: a ValueError unless every
\* character is a decimal digit (no sign, blank or underscore reaches it here)
IntRaises(t) == \E i \in 1..Len(t) : t[i] \notin DecimalDigits
IntValue(t) == DigitsValue(t)

\* str(n) for n >= 0
RECURSIVE NatText(_)
NatText(n) ==
  IF n < 10 THEN <<DigitChars[n + 1]>>
  ELSE Append(NatText(n \div 10), DigitChars[(n % 10) + 1])

(***************************************************************************)
(* Outcomes of one pass of a prompt loop or of a validator.                *)
(***************************************************************************)
Accept(v) == [kind |-> "accept", value |-> v]
Reject == [kind |-> "reject"]
\* an exception no handler catches leaves the prompt: the process ends
Raise == [kind |-> "raise"]

(***************************************************************************)
(* validate_year_input and one pass of prompt_year.                        *)
(***************************************************************************)
validate_year_input(v) ==
  IF IsDigit(v)
  THEN IF IntRaises(v) THEN Raise
       ELSE IF MIN_YEAR <= IntValue(v) /\ IntValue(v) <= MAX_YEAR
            THEN Accept(v)
            ELSE Reject
  ELSE Reject

prompt_year_step(line) ==
  LET v == Strip(line) IN
  IF v = <<>> THEN Accept(<<>>)
  ELSE IF IsDigit(v)
       THEN IF IntRaises(v) THEN Raise
            ELSE IF MIN_YEAR <= IntValue(v) /\ IntValue(v) <= MAX_YEAR
                 THEN Accept(v)
                 ELSE Reject
       ELSE Reject

(***************************************************************************)
(* validate_watched_input, one pass of prompt_watched, prompt_non_empty,   *)
(* prompt_optional.                                                        *)
(***************************************************************************)
\* the check without upper()
validate_watched_input_AsTyped(v) ==
  IF Strip(v) \in {<<"Y">>, <<"N">>} THEN Accept(Strip(v)) ELSE Reject

validate_watched_input(v) ==
  LET vv == Upper(Strip(v)) IN
  IF vv \in {<<"Y">>, <<"N">>} THEN Accept(vv) ELSE Reject

prompt_watched_step(line) ==
  LET v == Upper(Strip(line)) IN
  IF v \in {<<"Y">>, <<"N">>} THEN Accept(v) ELSE Reject

\* a prompt that takes the empty line too
prompt_non_empty_step_TakesEmpty(line) ==
  Accept(Strip(line))

prompt_non_empty_step(line) ==
  LET v == Strip(line) IN
  IF v # <<>> THEN Accept(v) ELSE Reject

prompt_optional(line) == Strip(line)

(***************************************************************************)
(* float(v) and str(float): the rating validator.                          *)
(* A parsed number is sign * m * 10^e, kept exactly. A text of at most a   *)
(* dozen significant digits and a two-digit exponent converts to a double  *)
(* whose shortest repr has the same digits, and rounding to a double is    *)
(* monotonic with 0.0 and 10.0 exact, so the comparisons and the repr      *)
(* computed on the exact decimal are those of the double.                  *)
(***************************************************************************)
ParseError == [kind |-> "ValueError"]
NaN == [kind |-> "nan"]
Inf(neg) == [kind |-> "inf", neg |-> neg]
Num(neg, m, e) == [kind |-> "num", neg |-> neg, m |-> m, e |-> e]

\* first position of a character of set S in t, 0 when there is none
FirstIn(t, S) ==
  IF \E i \in 1..Len(t) : t[i] \in S
  THEN CHOOSE i \in 1..Len(t) : t[i] \in S /\ \A j \in 1..(i - 1) : t[j] \notin S
  ELSE 0

AllDecimal(t) == \A i \in 1..Len(t) : t[i] \in DecimalDigits

\* an underscore is legal only between two digits
BadUnderscore(t) ==
  \E i \in 1..Len(t) :
    /\ t[i] = "_"
    /\ ~(i > 1 /\ i < Len(t) /\ t[i - 1] \in DecimalDigits /\ t[i + 1] \in DecimalDigits)

NotUnderscore(c) == c # "_"

\* the exponent part after e/E: [sign] digit+
ParseExponent(t) ==
  LET signed == t # <<>> /\ Head(t) \in {"+", "-"}
      ds == IF signed THEN Tail(t) ELSE t
  IN IF ds = <<>> \/ ~AllDecimal(ds) THEN [ok |-> FALSE, val |-> 0]
     ELSE [ok |-> TRUE,
           val |-> IF signed /\ Head(t) = "-" THEN 0 - DigitsValue(ds) ELSE DigitsValue(ds)]

\* digit* [. digit*] with at least one digit, then an optional exponent
ParseDecimal(neg, body) ==
  LET ePos == FirstIn(body, {"e", "E"})
      mant == IF ePos = 0 THEN body ELSE SubSeq(body, 1, ePos - 1)
      expo == IF ePos = 0 THEN [ok |-> TRUE, val |-> 0]
              ELSE ParseExponent(SubSeq(body, ePos + 1, Len(body)))
      dot == FirstIn(mant, {"."})
      ip == IF dot = 0 THEN mant ELSE SubSeq(mant, 1, dot - 1)
      fp == IF dot = 0 THEN <<>> ELSE SubSeq(mant, dot + 1, Len(mant))
  IN IF ~expo.ok \/ ~AllDecimal(ip) \/ ~AllDecimal(fp) \/ Len(ip) + Len(fp) = 0
     THEN ParseError
     ELSE Num(neg, DigitsValue(ip \o fp), expo.val - Len(fp))

\* float(v)
ParseFloat(v) ==
  LET s == Strip(v)
      t == SelectSeq(s, NotUnderscore)
      signed == t # <<>> /\ Head(t) \in {"+", "-"}
      neg == signed /\ Head(t) = "-"
      body == IF signed THEN Tail(t) ELSE t
      low == Lower(body)
  IN IF BadUnderscore(s) THEN ParseError
     ELSE IF low = <<"n", "a", "n">> THEN NaN
     ELSE IF low \in {<<"i", "n", "f">>, <<"i", "n", "f", "i", "n", "i", "t", "y">>}
          THEN Inf(neg)
     ELSE ParseDecimal(neg, body)

\* m * 10^e with the trailing zeros of m moved into e
RECURSIVE Canon(_, _)
Canon(m, e) ==
  IF m # 0 /\ m % 10 = 0 THEN Canon(m \div 10, e + 1) ELSE [m |-> m, e |-> e]

NumDigits(m) == Len(NatText(m))

\* the double is 0.0: a zero mantissa, or a value that underflows
IsZero(r) ==
  r.kind = "num" /\ (r.m = 0 \/ NumDigits(Canon(r.m, r.e).m) + Canon(r.m, r.e).e < -323)

\* MIN_RATING <= r (every comparison with nan is False; -0.0 equals 0.0)
GeMin(r) ==
  CASE r.kind = "nan" -> FALSE
    [] r.kind = "inf" -> ~r.neg
    [] OTHER -> IsZero(r) \/ ~r.neg

\* r <= MAX_RATING
LeMax(r) ==
  CASE r.kind = "nan" -> FALSE
    [] r.kind = "inf" -> r.neg
    [] OTHER ->
        LET c == Canon(r.m, r.e) IN
        \/ IsZero(r)
        \/ r.neg
        \/ c.e = 1 /\ c.m * 10 <= MAX_RATING
        \/ c.e = 0 /\ c.m <= MAX_RATING
        \/ c.e < 0 /\ NumDigits(c.m) + c.e <= 1

\* r.is_integer(), for a finite r
IsInteger(r) == IsZero(r) \/ Canon(r.m, r.e).e >= 0

RECURSIVE Zeros(_)
Zeros(n) == IF n <= 0 THEN <<>> ELSE <<"0">> \o Zeros(n - 1)

RECURSIVE Pow10(_)
Pow10(n) == IF n <= 0 THEN 1 ELSE 10 * Pow10(n - 1)

\* str(int(r)) for an integral r with 0 <= r <= 10
IntText(r) ==
  IF IsZero(r) THEN <<"0">>
  ELSE LET c == Canon(r.m, r.e) IN NatText(c.m * Pow10(c.e))

\* str(r) for a non-integral r with 0 < r < 10: positional when the decimal
\* point position is above -4, scientific with a two-digit exponent below
FloatText(r) ==
  LET c == Canon(r.m, r.e)
      D == NatText(c.m)
      decpt == Len(D) + c.e
      x == 1 - decpt
  IN IF decpt = 1 THEN <<D[1], ".">> \o Tail(D)
     ELSE IF decpt > -4 THEN <<"0", ".">> \o Zeros(0 - decpt) \o D
     ELSE <<D[1]>> \o (IF Len(D) > 1 THEN <<".">> \o Tail(D) ELSE <<>>)
          \o <<"e", "-">> \o (IF x < 10 THEN <<"0">> ELSE <<>>) \o NatText(x)

\* str(r) for every accepted r, the integral ones too
RatingText_AlwaysFloat(r) == FloatText(r)

\* the text both rating checks return for an accepted r
RatingText(r) == IF IsInteger(r) THEN IntText(r) ELSE FloatText(r)

validate_rating_input(v) ==
  LET r == ParseFloat(v) IN
  IF r.kind = "ValueError" THEN Reject
  ELSE IF GeMin(r) /\ LeMax(r) THEN Accept(RatingText(r))
  ELSE Reject

\* r < MAX_RATING
LtMax(r) ==
  LeMax(r) /\ ~(r.kind = "num" /\ ~r.neg /\ ~IsZero(r)
                /\ Canon(r.m, r.e) = [m |-> 1, e |-> 1])

\* prompt_rating with < for <= at the upper bound
prompt_rating_step_Exclusive(line) ==
  LET v == Strip(line)
      r == ParseFloat(v)
  IN IF v = <<>> THEN Accept(<<>>)
     ELSE IF r.kind = "ValueError" THEN Reject
     ELSE IF GeMin(r) /\ LtMax(r)
          THEN Accept(IF IsInteger(r) THEN IntText(r) ELSE FloatText(r))
     ELSE Reject

prompt_rating_step(line) ==
  LET v == Strip(line)
      r == ParseFloat(v)
  IN IF v = <<>> THEN Accept(<<>>)
     ELSE IF r.kind = "ValueError" THEN Reject
     ELSE IF GeMin(r) /\ LeMax(r)
          THEN Accept(IF IsInteger(r) THEN IntText(r) ELSE FloatText(r))
     ELSE Reject

(***************************************************************************)
(* One pass of prompt_edit_field, and the title check view_movies gives it.*)
(***************************************************************************)
validate_title_input(x) == IF x # <<>> THEN Accept(x) ELSE Reject

\* the validator handed to prompt_edit_field, by its name; "" is validator=None
CallValidator(validator, v) ==
  CASE validator = "movie name" -> validate_title_input(v)
    [] validator = "validate_rating_input" -> validate_rating_input(v)
    [] validator = "validate_year_input" -> validate_year_input(v)
    [] validator = "validate_watched_input" -> validate_watched_input(v)
    [] validator = "" -> Accept(v)

\* a variant that hands an empty line on as the new value
prompt_edit_field_step_NoKeep(line, current_value, validator) ==
  IF Strip(line) = <<>> THEN Accept(<<>>) ELSE CallValidator(validator, Strip(line))

prompt_edit_field_step(line, current_value, validator) ==
  LET v == Strip(line) IN
  IF v = <<>> THEN Accept(current_value) ELSE CallValidator(validator, v)

(***************************************************************************)
(* The movie store (movies.csv below its header) and the Movie dataclass.  *)
(***************************************************************************)
MOVIES_FIELDS ==
  <<"username", "movie_name", "director", "genre", "rating", "year", "watched">>

FieldNames == {MOVIES_FIELDS[i] : i \in 1..Len(MOVIES_FIELDS)}

\* what csv.DictReader gives for a column the row is too short to hold
None == <<"None_">>

\* (x or "")
OrEmpty(x) == IF x = None THEN <<>> ELSE x

Movie(username, movie_name, director, genre, rating, year, watched) ==
  [username |-> username, movie_name |-> movie_name, director |-> director,
   genre |-> genre, rating |-> rating, year |-> year, watched |-> watched]

\* no Movie
NoMovie == [username |-> <<>>]

\* the Movie objects of the rows of one user, in file order
RECURSIVE load_movies_for_user(_, _)
load_movies_for_user(file, username) ==
  IF file = <<>> THEN <<>>
  ELSE LET row == Head(file)
           rest == load_movies_for_user(Tail(file), username)
       IN IF Strip(OrEmpty(row.username)) # username THEN rest
          ELSE <<Movie(username,
                       Strip(OrEmpty(row.movie_name)),
                       Strip(OrEmpty(row.director)),
                       Strip(OrEmpty(row.genre)),
                       Strip(OrEmpty(row.rating)),
                       Strip(OrEmpty(row.year)),
                       Upper(Strip(OrEmpty(row.watched))))>> \o rest

\* append_movie writing the row at the head of the file
append_movie_Front(file, movie) ==
  <<[k \in FieldNames |-> movie[k]]>> \o file

\* one more row at the end of the file; the rows before it are not read
append_movie(file, movie) ==
  Append(file, [k \in FieldNames |-> movie[k]])

load_all_movie_rows(file) ==
  [i \in 1..Len(file) |-> [k \in FieldNames |-> OrEmpty(file[i][k])]]

\* the file after the rewrite: the header, then every row with its seven columns
save_all_movie_rows(rows) ==
  [i \in 1..Len(rows) |-> [k \in FieldNames |-> OrEmpty(rows[i][k])]]

\* a match on the title alone
movie_row_matches_TitleOnly(row, mv) ==
  Strip(OrEmpty(row.movie_name)) = mv.movie_name

movie_row_matches(row, mv) ==
  /\ Strip(OrEmpty(row.username)) = mv.username
  /\ Strip(OrEmpty(row.movie_name)) = mv.movie_name
  /\ Strip(OrEmpty(row.director)) = mv.director
  /\ Strip(OrEmpty(row.genre)) = mv.genre
  /\ Strip(OrEmpty(row.rating)) = mv.rating
  /\ Strip(OrEmpty(row.year)) = mv.year
  /\ Upper(Strip(OrEmpty(row.watched))) = Upper(Strip(OrEmpty(mv.watched)))

\* ScanHit without the two comparisons of the username
ScanHit_AnyUser(row, username, mv) ==
  /\ Strip(OrEmpty(row.movie_name)) = mv.movie_name
  /\ Strip(OrEmpty(row.director)) = mv.director
  /\ Strip(OrEmpty(row.genre)) = mv.genre
  /\ Strip(OrEmpty(row.rating)) = mv.rating
  /\ Strip(OrEmpty(row.year)) = mv.year
  /\ Upper(Strip(OrEmpty(row.watched))) = Upper(Strip(OrEmpty(mv.watched)))

\* the condition of the scan of delete_movie_record and update_movie_record
ScanHit(row, username, mv) ==
  Strip(OrEmpty(row.username)) = username /\ movie_row_matches(row, mv)

RECURSIVE DeleteLoop(_, _, _, _, _, _)

\* DeleteLoop without "not deleted": every matching row goes
RECURSIVE DeleteLoop_All(_, _, _, _, _, _)
DeleteLoop_All(rows, i, username, mv, deleted, new_rows) ==
  IF i > Len(rows) THEN [deleted |-> deleted, new_rows |-> new_rows]
  ELSE IF ScanHit(rows[i], username, mv)
       THEN DeleteLoop_All(rows, i + 1, username, mv, TRUE, new_rows)
       ELSE DeleteLoop_All(rows, i + 1, username, mv, deleted, Append(new_rows, rows[i]))

\* DeleteLoop with break for continue: the rows after the hit are not copied
RECURSIVE DeleteLoop_Break(_, _, _, _, _, _)
DeleteLoop_Break(rows, i, username, mv, deleted, new_rows) ==
  IF i > Len(rows) THEN [deleted |-> deleted, new_rows |-> new_rows]
  ELSE IF ~deleted /\ ScanHit(rows[i], username, mv)
       THEN [deleted |-> TRUE, new_rows |-> new_rows]
       ELSE DeleteLoop_Break(rows, i + 1, username, mv, deleted, Append(new_rows, rows[i]))

\* the for loop of delete_movie_record from row i on
DeleteLoop(rows, i, username, mv, deleted, new_rows) ==
  IF i > Len(rows) THEN [deleted |-> deleted, new_rows |-> new_rows]
  ELSE IF ~deleted /\ ScanHit(rows[i], username, mv)
       THEN DeleteLoop(rows, i + 1, username, mv, TRUE, new_rows)
       ELSE DeleteLoop(rows, i + 1, username, mv, deleted, Append(new_rows, rows[i]))

\* delete_movie_record saving without looking at deleted
delete_movie_record_AlwaysSaves(file, username, movie_to_delete) ==
  LET rows == load_all_movie_rows(file)
      r == DeleteLoop(rows, 1, username, movie_to_delete, FALSE, <<>>)
  IN [ret |-> r.deleted, file |-> save_all_movie_rows(r.new_rows)]

\* delete_movie_record: the value returned and the file afterwards
delete_movie_record(file, username, movie_to_delete) ==
  LET rows == load_all_movie_rows(file)
      r == DeleteLoop(rows, 1, username, movie_to_delete, FALSE, <<>>)
  IN [ret |-> r.deleted,
      file |-> IF r.deleted THEN save_all_movie_rows(r.new_rows) ELSE file]

RECURSIVE UpdateLoop(_, _, _, _, _)

\* UpdateLoop without "not updated" and break: every matching row is replaced
RECURSIVE UpdateLoop_NoBreak(_, _, _, _, _)
UpdateLoop_NoBreak(rows, i, username, old_movie, new_movie) ==
  IF i > Len(rows) THEN [updated |-> FALSE, rows |-> rows]
  ELSE LET rest == UpdateLoop_NoBreak(rows, i + 1, username, old_movie, new_movie) IN
       IF ScanHit(rows[i], username, old_movie)
       THEN [updated |-> TRUE,
             rows |-> [rest.rows EXCEPT ![i] =
                         [username |-> username,
                          movie_name |-> new_movie.movie_name,
                          director |-> new_movie.director,
                          genre |-> new_movie.genre,
                          rating |-> new_movie.rating,
                          year |-> new_movie.year,
                          watched |-> new_movie.watched]]]
       ELSE rest

\* the for loop of update_movie_record from row i on, left at the first hit
UpdateLoop(rows, i, username, old_movie, new_movie) ==
  IF i > Len(rows) THEN [updated |-> FALSE, rows |-> rows]
  ELSE IF ScanHit(rows[i], username, old_movie)
       THEN [updated |-> TRUE,
             rows |-> [rows EXCEPT ![i] =
                         [username |-> username,
                          movie_name |-> new_movie.movie_name,
                          director |-> new_movie.director,
                          genre |-> new_movie.genre,
                          rating |-> new_movie.rating,
                          year |-> new_movie.year,
                          watched |-> new_movie.watched]]]
       ELSE UpdateLoop(rows, i + 1, username, old_movie, new_movie)

\* update_movie_record: the value returned and the file afterwards
update_movie_record(file, username, old_movie, new_movie) ==
  LET rows == load_all_movie_rows(file)
      r == UpdateLoop(rows, 1, username, old_movie, new_movie)
  IN [ret |-> r.updated,
      file |-> IF r.updated THEN save_all_movie_rows(r.rows) ELSE file]

(***************************************************************************)
(* The prompt loops, fed the lines the user types one after the other. A   *)
(* loop that has used up the lines is still blocked in input().            *)
(***************************************************************************)
Waiting == [kind |-> "waiting"]

RECURSIVE prompt_non_empty(_)
prompt_non_empty(lines) ==
  IF lines = <<>> THEN Waiting
  ELSE LET o == prompt_non_empty_step(Head(lines)) IN
       IF o.kind = "reject" THEN prompt_non_empty(Tail(lines)) ELSE o

RECURSIVE prompt_rating(_)
prompt_rating(lines) ==
  IF lines = <<>> THEN Waiting
  ELSE LET o == prompt_rating_step(Head(lines)) IN
       IF o.kind = "reject" THEN prompt_rating(Tail(lines)) ELSE o

RECURSIVE prompt_year(_)
prompt_year(lines) ==
  IF lines = <<>> THEN Waiting
  ELSE LET o == prompt_year_step(Head(lines)) IN
       IF o.kind = "reject" THEN prompt_year(Tail(lines)) ELSE o

RECURSIVE prompt_watched(_)
prompt_watched(lines) ==
  IF lines = <<>> THEN Waiting
  ELSE LET o == prompt_watched_step(Head(lines)) IN
       IF o.kind = "reject" THEN prompt_watched(Tail(lines)) ELSE o

\* confirm_yes_no: True for Y, False for N
RECURSIVE confirm_yes_no(_)
\* a confirmation that takes every answer for Y
confirm_yes_no_AlwaysYes(lines) ==
  IF lines = <<>> THEN Waiting ELSE Accept(TRUE)

confirm_yes_no(lines) ==
  IF lines = <<>> THEN Waiting
  ELSE LET v == Upper(Strip(Head(lines))) IN
       IF v \in {<<"Y">>, <<"N">>} THEN Accept(v = <<"Y">>)
       ELSE confirm_yes_no(Tail(lines))

\* prompt_edit_field with each of the checks view_movies passes to it
RECURSIVE edit_title(_, _)
edit_title(lines, current_value) ==
  IF lines = <<>> THEN Waiting
  ELSE LET o == prompt_edit_field_step(Head(lines), current_value, "movie name") IN
       IF o.kind = "reject" THEN edit_title(Tail(lines), current_value) ELSE o

edit_text(lines, current_value) ==
  IF lines = <<>> THEN Waiting
  ELSE prompt_edit_field_step(Head(lines), current_value, "")

RECURSIVE edit_rating(_, _)
edit_rating(lines, current_value) ==
  IF lines = <<>> THEN Waiting
  ELSE LET o == prompt_edit_field_step(Head(lines), current_value, "validate_rating_input") IN
       IF o.kind = "reject" THEN edit_rating(Tail(lines), current_value) ELSE o

RECURSIVE edit_year(_, _)
edit_year(lines, current_value) ==
  IF lines = <<>> THEN Waiting
  ELSE LET o == prompt_edit_field_step(Head(lines), current_value, "validate_year_input") IN
       IF o.kind = "reject" THEN edit_year(Tail(lines), current_value) ELSE o

RECURSIVE edit_watched(_, _)
edit_watched(lines, current_value) ==
  IF lines = <<>> THEN Waiting
  ELSE LET o == prompt_edit_field_step(Head(lines), current_value, "validate_watched_input") IN
       IF o.kind = "reject" THEN edit_watched(Tail(lines), current_value) ELSE o

\* the first of the outcomes, in prompt order, that is not an accepted value
FirstStop(outcomes) ==
  IF \E i \in 1..Len(outcomes) : outcomes[i].kind # "accept"
  THEN outcomes[CHOOSE i \in 1..Len(outcomes) :
                  /\ outcomes[i].kind # "accept"
                  /\ \A j \in 1..(i - 1) : outcomes[j].kind = "accept"].kind
  ELSE "done"

(***************************************************************************)
(* add_movie: six prompts, then append_movie. inp gives, per field, the    *)
(* lines typed at its prompt.                                              *)
(***************************************************************************)
\* the Movie built from the values of the six prompts, in prompt order
MovieFrom(username, o) ==
  Movie(username, o[1].value, o[2].value, o[3].value, o[4].value, o[5].value,
        o[6].value)

\* add_movie once its prompts have come to the outcomes o
add_movie_end(file, username, o) ==
  IF FirstStop(o) = "done"
  THEN [status |-> "done", movie |-> MovieFrom(username, o),
        file |-> append_movie(file, MovieFrom(username, o))]
  ELSE [status |-> FirstStop(o), movie |-> NoMovie, file |-> file]

add_movie(file, username, inp) ==
  add_movie_end(file, username,
                <<prompt_non_empty(inp.movie_name),
                  Accept(prompt_optional(inp.director)),
                  Accept(prompt_optional(inp.genre)),
                  prompt_rating(inp.rating),
                  prompt_year(inp.year),
                  prompt_watched(inp.watched)>>)

(***************************************************************************)
(* The Edit branch of view_movies: six prompt_edit_field calls build       *)
(* updated_movie from selected; confirm_yes_no; update_movie_record on Y.  *)
(***************************************************************************)
\* a variant that leaves selected as it was loaded after a saved Edit
edit_movie_saved_KeepsLoaded(sel, updated_movie, u) ==
  [status |-> IF u.ret THEN "updated" ELSE "not found", saved |-> u.ret,
   selected |-> sel, file |-> u.file]

\* the end of the branch on Y: update_movie_record has returned u
edit_movie_saved(sel, updated_movie, u) ==
  IF u.ret
  THEN [status |-> "updated", saved |-> TRUE, selected |-> updated_movie,
        file |-> u.file]
  ELSE [status |-> "not found", saved |-> FALSE, selected |-> sel, file |-> u.file]

\* the branch once its prompts and the confirmation have come to the outcomes o
edit_movie_end(file, username, sel, o) ==
  IF FirstStop(o) # "done"
  THEN [status |-> FirstStop(o), saved |-> FALSE, selected |-> sel, file |-> file]
  ELSE IF ~o[7].value
  THEN [status |-> "canceled", saved |-> FALSE, selected |-> sel, file |-> file]
  ELSE edit_movie_saved(sel, MovieFrom(username, o),
                        update_movie_record(file, username, sel,
                                            MovieFrom(username, o)))

edit_movie(file, username, sel, inp, answer) ==
  edit_movie_end(file, username, sel,
                 <<edit_title(inp.movie_name, sel.movie_name),
                   edit_text(inp.director, sel.director),
                   edit_text(inp.genre, sel.genre),
                   edit_rating(inp.rating, sel.rating),
                   edit_year(inp.year, sel.year),
                   edit_watched(inp.watched, sel.watched),
                   confirm_yes_no(answer)>>)

(***************************************************************************)
(* users.csv as main() seeds it, load_users and one pass of authenticate.  *)
(***************************************************************************)
PwDemo == <<"d", "e", "m", "o", "1", "2", "3">>
PwAlice == <<"p", "a", "s", "s", "w", "o", "r", "d">>

SeedUsers ==
  <<[username |-> <<"d", "e", "m", "o">>, password |-> PwDemo],
    [username |-> <<"a", "l", "i", "c", "e">>, password |-> PwAlice]>>

\* the rows of users.csv with a username, a later row replacing an earlier one
\* of the same username; here as the set of names and the password of a name
UserNames(ufile) ==
  {Strip(OrEmpty(ufile[i].username)) : i \in 1..Len(ufile)} \ {<<>>}

PasswordOf(ufile, u) ==
  LET last == CHOOSE i \in 1..Len(ufile) :
                /\ Strip(OrEmpty(ufile[i].username)) = u
                /\ \A j \in (i + 1)..Len(ufile) : Strip(OrEmpty(ufile[j].username)) # u
  IN Strip(OrEmpty(ufile[last].password))

\* a login that does not look at the password
authenticate_step_NameOnly(ufile, name_line, password_line) ==
  IF Strip(name_line) \in UserNames(ufile) THEN Accept(Strip(name_line)) ELSE Reject

\* one pass of the loop of authenticate: the username on success
authenticate_step(ufile, name_line, password_line) ==
  LET username == Strip(name_line)
      password == Strip(password_line)
  IN IF username \in UserNames(ufile) /\ PasswordOf(ufile, username) = password
     THEN Accept(username)
     ELSE Reject

(***************************************************************************)
(* The top of the loop of view_movies and of delete_movie_from_home: the   *)
(* list is loaded again; no movies sends the session back to Home.         *)
(***************************************************************************)
\* a list screen that shows the list read when the run began, from the store
\* with its header only
EnterList_ReadOnce(file, username, screen) ==
  [pc |-> screen, movies |-> <<>>]

EnterList(file, username, screen) ==
  LET loaded == load_movies_for_user(file, username) IN
  IF loaded = <<>> THEN [pc |-> "Home", movies |-> <<>>]
  ELSE [pc |-> screen, movies |-> loaded]

\* what a list screen does with the line typed: go back, open entry idx,
\* fail in int(), or show the list again
ListChoice(line, shown) ==
  LET choice == Lower(Strip(line)) IN
  IF choice \in {<<"b">>, <<"b", "a", "c", "k">>} THEN [kind |-> "back"]
  ELSE IF IsDigit(choice)
  THEN IF IntRaises(choice) THEN Raise
       ELSE IF 1 <= IntValue(choice) /\ IntValue(choice) <= Len(shown)
            THEN [kind |-> "select", idx |-> IntValue(choice)]
            ELSE [kind |-> "invalid"]
  ELSE [kind |-> "invalid"]

(***************************************************************************)
(* State.                                                                  *)
(***************************************************************************)
VARIABLES
  store,     \* the rows of movies.csv, in file order
  pre,       \* the store when the last operation began
  call,      \* the last operation and its arguments
  ret,       \* what the last operation returned
  pc,        \* the screen a session is at
  user,      \* the username authenticate returned
  movies,    \* the list the current list screen loaded
  selected,  \* the Movie the details screen holds
  focus,     \* the fields the session's user types values into
  base,      \* the store before the first add of a run of adds
  added      \* the Movie objects the adds of that run were given, in order

vars == <<store, pre, call, ret, pc, user, movies, selected, focus, base, added>>

NoCall == [op |-> "none"]
NoRet == [kind |-> "none"]

sessionVars == <<pc, user, movies, selected, focus>>
addVars == <<base, added>>

BoundedSeq(S, n) == UNION {[1..k -> S] : k \in 0..n}

(***************************************************************************)
(* Values the exploration draws from.                                      *)
(***************************************************************************)
Alice == <<"a", "l", "i", "c", "e">>
Demo == <<"d", "e", "m", "o">>
Users == {Alice, Demo}

Y1999 == <<"1", "9", "9", "9">>

Fields(movie_name, director, genre, rating, year, watched) ==
  [movie_name |-> movie_name, director |-> director, genre |-> genre,
   rating |-> rating, year |-> year, watched |-> watched]

MovieOf(u, f) ==
  Movie(u, f.movie_name, f.director, f.genre, f.rating, f.year, f.watched)

F1 == Fields(<<"x">>, <<"d">>, <<"g">>, <<"7">>, Y1999, <<"Y">>)
\* F1 with the watched flag in lower case
F1y == Fields(<<"x">>, <<"d">>, <<"g">>, <<"7">>, Y1999, <<"y">>)
\* F1 without a year
F2 == Fields(<<"x">>, <<"d">>, <<"g">>, <<"7">>, <<>>, <<"Y">>)
\* what load_movies_for_user makes of the short row
F3 == Fields(<<"z">>, <<>>, <<>>, <<>>, <<>>, <<>>)
\* F1 not watched
F4 == Fields(<<"x">>, <<"d">>, <<"g">>, <<"7">>, Y1999, <<"N">>)

Targets == {F1, F1y, F2, F3, F4}
NewValues == {F2, F4}

RowOf(u, f) == [k \in FieldNames |-> MovieOf(u, f)[k]]

\* a row written by hand: blanks around the username and the title, a lower
\* case flag; load_movies_for_user reads it as MovieOf(Alice, F1)
PaddedRow ==
  [username |-> <<" ", "a", "l", "i", "c", "e">>, movie_name |-> <<"x", " ">>, director |-> <<"d">>,
   genre |-> <<"g">>, rating |-> <<"7">>, year |-> Y1999, watched |-> <<"y">>]

\* the line "alice,z": the five last columns are missing
ShortRow ==
  [username |-> Alice, movie_name |-> <<"z">>, director |-> None, genre |-> None,
   rating |-> None, year |-> None, watched |-> None]

ExternalRows ==
  {RowOf(Alice, F1), RowOf(Demo, F1), PaddedRow, RowOf(Alice, F2), ShortRow,
   RowOf(Demo, F4)}

(***************************************************************************)
(* Spec: one call of a CRUD function on any store content.                 *)
(***************************************************************************)
IdleSession ==
  /\ pc = "off" /\ user = <<>> /\ movies = <<>> /\ selected = NoMovie /\ focus = "none"

IdleAdd == base = <<>> /\ added = <<>>

Init ==
  /\ store \in BoundedSeq(ExternalRows, MaxRows)
  /\ pre = store
  /\ call = NoCall
  /\ ret = NoRet
  /\ IdleSession
  /\ IdleAdd

CallDelete ==
  \E u \in Users, f \in Targets :
    LET r == delete_movie_record(store, u, MovieOf(u, f)) IN
    /\ call = NoCall
    /\ store' = r.file
    /\ ret' = r.ret
    /\ pre' = store
    /\ call' = [op |-> "delete", username |-> u, mv |-> MovieOf(u, f)]
    /\ UNCHANGED <<sessionVars, addVars>>

CallUpdate ==
  \E u \in Users, f \in Targets, g \in NewValues :
    LET r == update_movie_record(store, u, MovieOf(u, f), MovieOf(u, g)) IN
    /\ call = NoCall
    /\ store' = r.file
    /\ ret' = r.ret
    /\ pre' = store
    /\ call' = [op |-> "update", username |-> u, mv |-> MovieOf(u, f),
                new |-> MovieOf(u, g)]
    /\ UNCHANGED <<sessionVars, addVars>>

CallAppend ==
  \E u \in Users, g \in NewValues :
    /\ call = NoCall
    /\ store' = append_movie(store, MovieOf(u, g))
    /\ ret' = NoRet
    /\ pre' = store
    /\ call' = [op |-> "append", username |-> u, mv |-> MovieOf(u, g)]
    /\ UNCHANGED <<sessionVars, addVars>>

CallLoad ==
  \E u \in Users :
    /\ call = NoCall
    /\ ret' = load_movies_for_user(store, u)
    /\ pre' = store
    /\ call' = [op |-> "load", username |-> u]
    /\ UNCHANGED <<store, sessionVars, addVars>>

\* the Delete flows: the list of a user is shown, entry idx is chosen and
\* confirmed, and delete_movie_record is called with that entry
CallDeleteSelected ==
  \E u \in Users :
    \E shown \in {load_movies_for_user(store, u)} :
      \E idx \in 1..Len(shown) :
        \E r \in {delete_movie_record(store, u, shown[idx])} :
          /\ call = NoCall
          /\ store' = r.file
          /\ ret' = r.ret
          /\ pre' = store
          /\ call' = [op |-> "delete selected", username |-> u, shown |-> shown,
                      idx |-> idx]
          /\ UNCHANGED <<sessionVars, addVars>>

Next == CallDelete \/ CallUpdate \/ CallAppend \/ CallLoad \/ CallDeleteSelected

Spec == Init /\ [][Next]_vars

(***************************************************************************)
(* Notions the properties of the CRUD functions are stated with.           *)
(***************************************************************************)
\* the user a row belongs to
OwnerOf(row) == Strip(OrEmpty(row.username))

\* the rows as the program reads them: a missing column reads as ""
Rows(file) == [i \in 1..Len(file) |-> [k \in FieldNames |-> OrEmpty(file[i][k])]]

\* the rows that do not belong to user u, in file order
RECURSIVE RowsNotOf(_, _)
RowsNotOf(file, u) ==
  IF file = <<>> THEN <<>>
  ELSE (IF OwnerOf(Head(file)) # u THEN <<Head(file)>> ELSE <<>>)
       \o RowsNotOf(Tail(file), u)

\* row and target agree, after trimming, in the six fields that are not the username
SixFieldsEqual(row, mv) ==
  /\ Strip(OrEmpty(row.movie_name)) = mv.movie_name
  /\ Strip(OrEmpty(row.director)) = mv.director
  /\ Strip(OrEmpty(row.genre)) = mv.genre
  /\ Strip(OrEmpty(row.rating)) = mv.rating
  /\ Strip(OrEmpty(row.year)) = mv.year
  /\ Upper(Strip(OrEmpty(row.watched))) = Upper(Strip(mv.watched))

\* row i of the file is a row of user u that equals the match key mv
Matches(file, i, u, mv) == OwnerOf(file[i]) = u /\ SixFieldsEqual(file[i], mv)

MatchSet(file, u, mv) == {i \in 1..Len(file) : Matches(file, i, u, mv)}

\* find_index: the position of the first matching row, 0 when there is none
FindIndex(file, u, mv) ==
  IF MatchSet(file, u, mv) = {} THEN 0
  ELSE CHOOSE i \in MatchSet(file, u, mv) : \A j \in MatchSet(file, u, mv) : i <= j

RemoveAt(seq, i) == SubSeq(seq, 1, i - 1) \o SubSeq(seq, i + 1, Len(seq))

Mutating == call.op \in {"delete", "update"}

\* C1: a delete or an update for user A, found or not, leaves the rows of every
\* other user as they were: the same rows, as many, in the same order, also
\* when such a row equals the target in its six fields other than the username.
C1_OtherUsersRowsKept ==
  Mutating =>
    RowsNotOf(Rows(store), call.username) = RowsNotOf(Rows(pre), call.username)

\* a successful delete for one user, a row of another user equal to the target
\* in the six other fields standing before the row that was removed
C1_Witness ==
  /\ call.op = "delete" /\ ret = TRUE
  /\ \E i \in 1..Len(pre) :
       /\ OwnerOf(pre[i]) # call.username
       /\ SixFieldsEqual(pre[i], call.mv)
       /\ i < FindIndex(pre, call.username, call.mv)

\* two rows of the calling user, equal in all seven fields, both match the target
HasTwin(file, u, mv) ==
  \E i, j \in MatchSet(file, u, mv) : i < j /\ file[i] = file[j]

\* C2: with two or more rows of the user equal in all seven fields in the store,
\* one delete with that target removes exactly one row, the first match in file
\* order: the store is one row shorter and the later identical rows remain.
C2_DeleteOneOfTwins ==
  (call.op = "delete" /\ HasTwin(pre, call.username, call.mv)) =>
    LET i == FindIndex(pre, call.username, call.mv) IN
    /\ ret = TRUE
    /\ Len(store) = Len(pre) - 1
    /\ \A j \in 1..(i - 1) : store[j] = Rows(pre)[j]
    /\ \A j \in (i + 1)..Len(pre) :
         Matches(pre, j, call.username, call.mv) => store[j - 1] = Rows(pre)[j]
    /\ Cardinality(MatchSet(store, call.username, call.mv))
         = Cardinality(MatchSet(pre, call.username, call.mv)) - 1

\* a delete on a store holding three identical rows of the user
C2_Witness ==
  /\ call.op = "delete" /\ ret = TRUE
  /\ HasTwin(pre, call.username, call.mv)
  /\ Cardinality(MatchSet(store, call.username, call.mv)) >= 2

\* C3: after a successful delete the store is the store before the call with
\* the matched row taken out: every other row keeps its fields and its place
\* among the others.
C3_DeleteKeepsTheRest ==
  (call.op = "delete" /\ ret = TRUE) =>
    /\ FindIndex(pre, call.username, call.mv) # 0
    /\ store = RemoveAt(Rows(pre), FindIndex(pre, call.username, call.mv))

\* the row removed stood between a row of another user and a row of the same user
C3_Witness ==
  /\ call.op = "delete" /\ ret = TRUE
  /\ Len(pre) = 3
  /\ FindIndex(pre, call.username, call.mv) = 2
  /\ OwnerOf(pre[1]) # call.username
  /\ OwnerOf(pre[3]) = call.username
  /\ pre[1] # pre[3]

\* C4: when no row matches the username and the whole match key, update and
\* delete return False and the store is left as it was: nothing is rewritten.
C4_NotFoundLeavesStore ==
  (Mutating /\ MatchSet(pre, call.username, call.mv) = {}) =>
    ret = FALSE /\ store = pre

\* an update that finds nothing although another user's row carries the same
\* six fields, on a store a rewrite would change
C4_Witness ==
  /\ call.op = "update" /\ ret = FALSE
  /\ \E i \in 1..Len(pre) : SixFieldsEqual(pre[i], call.mv)
  /\ Rows(pre) # pre

\* C5: a successful update keeps the store's length; the row at the position
\* of the first match carries the username and the six fields of new; every
\* other row, a later match of old included, stays as it was where it was.
C5_UpdateInPlace ==
  (call.op = "update" /\ ret = TRUE) =>
    LET i == FindIndex(pre, call.username, call.mv) IN
    /\ i # 0
    /\ Len(store) = Len(pre)
    /\ store[i] = [k \in FieldNames |-> call.new[k]]
    /\ store[i].username = call.username
    /\ \A j \in 1..Len(pre) : j # i => store[j] = Rows(pre)[j]

\* an update on a store where a later row matches old as well
C5_Witness ==
  /\ call.op = "update" /\ ret = TRUE
  /\ Cardinality(MatchSet(pre, call.username, call.mv)) >= 2
  /\ call.new # call.mv

\* the first position of the list that holds an entry equal to entry idx
FirstEqual(list, idx) ==
  CHOOSE i \in 1..idx : list[i] = list[idx] /\ \A j \in 1..(i - 1) : list[j] # list[idx]

\* C19 as stated: after entry idx of the list shown was chosen and the delete
\* confirmed, the list loaded next is the list shown without its entry idx.
C19_SelectedEntryRemoved ==
  call.op = "delete selected" =>
    /\ ret = TRUE
    /\ load_movies_for_user(store, call.username) = RemoveAt(call.shown, call.idx)

\* C19, amended: the delete is found, and the list loaded next is the list
\* shown without the first of its entries equal to entry idx; that is entry
\* idx itself when no earlier entry equals it, and in every case the list is
\* one entry shorter and has lost an entry equal to the chosen one.
C19_FirstEqualEntryRemoved ==
  call.op = "delete selected" =>
    /\ ret = TRUE
    /\ load_movies_for_user(store, call.username)
         = RemoveAt(call.shown, FirstEqual(call.shown, call.idx))
    /\ FirstEqual(call.shown, call.idx) = call.idx =>
         load_movies_for_user(store, call.username) = RemoveAt(call.shown, call.idx)

\* the third entry was chosen, the first is equal to it and the second is not
C19_Witness ==
  /\ call.op = "delete selected"
  /\ call.idx = 3
  /\ call.shown[1] = call.shown[3]
  /\ call.shown[2] # call.shown[3]
  /\ ret = TRUE

(***************************************************************************)
(* SpecAdd: runs of add_movie, for any users, on a store that holds at     *)
(* most one row, and load_movies_for_user.                                 *)
(***************************************************************************)
Line(t) == <<t>>

\* title, year and flag typed right the first time, the rest left empty
AddPlain ==
  [movie_name |-> Line(<<"x">>), director |-> <<>>, genre |-> <<>>,
   rating |-> Line(<<>>), year |-> Line(Y1999), watched |-> Line(<<"Y">>)]

\* blanks around the values, a second try at the title, the rating, the year
\* and the flag
AddRetried ==
  [movie_name |-> <<<<" ">>, <<" ", "z", " ">>>>,
   director |-> <<" ", "d">>,
   genre |-> <<"g", " ">>,
   rating |-> <<<<"1", "1">>, <<"7", ".", "0">>>>,
   year |-> <<<<"1", "8", "8", "0">>, <<>>>>,
   watched |-> <<<<"1">>, <<" ", "n">>>>]

AddInputs == {AddPlain, AddRetried}

InitAdd ==
  /\ store \in BoundedSeq(ExternalRows, 1)
  /\ pre = store
  /\ base = store
  /\ added = <<>>
  /\ call = NoCall
  /\ ret = NoRet
  /\ IdleSession

AddCall ==
  \E u \in Users, inp \in AddInputs :
    \E r \in {add_movie(store, u, inp)} :
    /\ Len(added) < MaxAdds
    /\ r.status = "done"
    /\ store' = r.file
    /\ added' = Append(added, r.movie)
    /\ pre' = store
    /\ call' = [op |-> "add", username |-> u]
    /\ ret' = NoRet
    /\ UNCHANGED <<base, sessionVars>>

AddLoad ==
  \E u \in Users :
    /\ ret' = load_movies_for_user(store, u)
    /\ pre' = store
    /\ call' = [op |-> "load", username |-> u]
    /\ UNCHANGED <<store, base, added, sessionVars>>

NextAdd == AddCall \/ AddLoad

SpecAdd == InitAdd /\ [][NextAdd]_vars

\* the Movie objects of user u among those given to the adds, in order
RECURSIVE MoviesOf(_, _)
MoviesOf(ms, u) ==
  IF ms = <<>> THEN <<>>
  ELSE (IF Head(ms).username = u THEN <<Head(ms)>> ELSE <<>>) \o MoviesOf(Tail(ms), u)

\* C6: from a store without rows of user u, after N adds for u, adds for other
\* users coming in between, load_movies_for_user(u) returns those N records in
\* the order of the adds, each field as supplied and an empty field still
\* empty; every add puts its row at the end and leaves the rows before it.
C6_AddThenLoad ==
  /\ Len(store) = Len(base) + Len(added)
  /\ \A i \in 1..Len(base) : store[i] = base[i]
  /\ \A i \in 1..Len(added) :
       \A k \in FieldNames : store[Len(base) + i][k] = added[i][k]
  /\ \A u \in Users :
       load_movies_for_user(base, u) = <<>> =>
         load_movies_for_user(store, u) = MoviesOf(added, u)

\* two adds for a user with an add for the other user between them, on a store
\* that held a row of the other user; one of the records has empty fields
C6_Witness ==
  /\ call.op = "load"
  /\ base # <<>>
  /\ load_movies_for_user(base, call.username) = <<>>
  /\ Len(added) = 3
  /\ added[1].username = call.username
  /\ added[2].username # call.username
  /\ added[3].username = call.username
  /\ added[1] # added[3]
  /\ \E i \in 1..Len(ret) : ret[i].director = <<>>
  /\ Len(ret) = 2

(***************************************************************************)
(* SpecValidate: one typed line given to one check of the year or of the   *)
(* rating: the Add prompt (one pass of its loop), the Edit validator, or   *)
(* one pass of prompt_edit_field with that validator.                      *)
(***************************************************************************)
YearAlphabet == {"0", "1", "2", "8", "-", ArabicEight, SuperTwo}
RatingAlphabet == {"0", "1", "7", ".", "-", "e", " "}

\* lines the alphabets do not spell
YearExtras ==
  {<<" ", "1", "8", "8", "8">>, <<"2", "1", "0", "0", " ">>, <<"1", "8", " ", "8", "8">>,
   <<" ">>, <<"1", "9", "9", "a">>, <<"1", "8", ".", "8">>, <<"+", "1", "9", "9", "9">>,
   <<"1", "9", ".", "0">>, <<"1", "_", "9", "9", "9">>}
RatingExtras ==
  {<<"n", "a", "n">>, <<"i", "n", "f">>, <<"-", "i", "n", "f">>, <<"N", "a", "N">>,
   <<"1", "_", "0">>, <<"1", "_">>, <<"+", "7">>, <<"+", "1", "1">>, <<ArabicEight>>,
   <<SuperTwo>>, <<"a">>, <<"7", "a">>, <<"1", "E", "1">>, <<"0", "x", "1">>,
   <<"1", "0", ".", "0", "1">>, <<"7", ",", "5">>}

YearLines == BoundedSeq(YearAlphabet, MaxLen) \cup YearExtras
RatingLines == BoundedSeq(RatingAlphabet, MaxLen) \cup RatingExtras

\* values the field being edited may hold
YearCurrents == {<<>>, Y1999}
RatingCurrents == {<<>>, <<"7">>}

InitValidate ==
  /\ call \in [op : {"input"},
               line : YearLines \cup RatingLines
                      \cup BoundedSeq({"y", "N", "e", "s", "1", " "}, MaxLen)]
  /\ ret = NoRet
  /\ store = <<>>
  /\ pre = <<>>
  /\ IdleSession
  /\ IdleAdd

Ran(op, outcome) ==
  /\ call.op = "input"
  /\ call' = [op |-> op, line |-> call.line]
  /\ ret' = outcome
  /\ UNCHANGED <<store, pre, sessionVars, addVars>>

RanEdit(op, current, outcome) ==
  /\ call.op = "input"
  /\ call' = [op |-> op, line |-> call.line, current |-> current]
  /\ ret' = outcome
  /\ UNCHANGED <<store, pre, sessionVars, addVars>>

RunValidateYear ==
  /\ call.line \in YearLines
  /\ Ran("validate_year_input", validate_year_input(call.line))

RunPromptYear ==
  /\ call.line \in YearLines
  /\ Ran("prompt_year", prompt_year_step(call.line))

RunEditYear ==
  \E c \in YearCurrents :
    /\ call.line \in YearLines
    /\ RanEdit("edit_year", c, prompt_edit_field_step(call.line, c, "validate_year_input"))

RunValidateRating ==
  /\ call.line \in RatingLines
  /\ Ran("validate_rating_input", validate_rating_input(call.line))

RunPromptRating ==
  /\ call.line \in RatingLines
  /\ Ran("prompt_rating", prompt_rating_step(call.line))

RunEditRating ==
  \E c \in RatingCurrents :
    /\ call.line \in RatingLines
    /\ RanEdit("edit_rating", c, prompt_edit_field_step(call.line, c, "validate_rating_input"))

\* the watched checks take every line
RunValidateWatched ==
  Ran("validate_watched_input", validate_watched_input(call.line))

RunPromptWatched ==
  Ran("prompt_watched", prompt_watched_step(call.line))

RunEditWatched ==
  RanEdit("edit_watched", <<"Y">>,
          prompt_edit_field_step(call.line, <<"Y">>, "validate_watched_input"))

NextValidate ==
  \/ RunValidateYear \/ RunPromptYear \/ RunEditYear
  \/ RunValidateRating \/ RunPromptRating \/ RunEditRating
  \/ RunValidateWatched \/ RunPromptWatched \/ RunEditWatched

SpecValidate == InitValidate /\ [][NextValidate]_vars

YearOps == {"validate_year_input", "prompt_year", "edit_year"}
RatingOps == {"validate_rating_input", "prompt_rating", "edit_rating"}

\* the text a check examines: the prompts trim the line, the validator is
\* handed a text as it is
Examined == IF call.op \in {"validate_year_input"} THEN call.line ELSE Strip(call.line)

\* only the digits 0-9, and at least one
PlainDigits(t) == t # <<>> /\ \A i \in 1..Len(t) : t[i] \in AsciiDigits

\* the value of a text of digits 0-9
RECURSIVE PlainValue(_)
PlainValue(t) ==
  IF t = <<>> THEN 0
  ELSE 10 * PlainValue(SubSeq(t, 1, Len(t) - 1))
       + (CHOOSE d \in 0..9 : DigitChars[d + 1] = t[Len(t)])

\* a year as the data model wants it
PlainYear(t) ==
  PlainDigits(t) /\ MIN_YEAR <= PlainValue(t) /\ PlainValue(t) <= MAX_YEAR

\* C9: validate_year accepts a non-empty text exactly when it is made of the
\* digits 0-9 alone and its value is in 1888..2100, returns the digits as they
\* were typed, and rejects every other non-empty text.
C9_YearDigitsOnly ==
  (call.op \in YearOps /\ Examined # <<>>) =>
    /\ ret.kind = "accept" <=> PlainYear(Examined)
    /\ ret.kind = "accept" => ret.value = Examined
    /\ ret.kind # "accept" => ret.kind = "reject"

\* 0 <= r <= 10 for a parsed finite number, by its decimal expansion
ValueInRange(r) ==
  /\ r.kind = "num"
  /\ r.m = 0 \/
       /\ ~r.neg
       /\ IF r.e >= 2 THEN FALSE
          ELSE IF r.e >= 0 THEN r.m * Pow10(r.e) <= 10
          ELSE IF r.e >= -8 THEN r.m <= 10 * Pow10(0 - r.e)
          ELSE r.m < 1000000000 \/ Len(NatText(r.m)) <= 1 - r.e

\* C10: validate_rating accepts a non-empty text exactly when it parses as a
\* number r with 0 <= r <= 10, and rejects every other text; the Add prompt
\* and the Edit validator give the same outcome on every input.
C10_RatingRange ==
  (call.op \in RatingOps /\ Strip(call.line) # <<>>) =>
    /\ ret.kind = "accept" <=> ValueInRange(ParseFloat(Strip(call.line)))
    /\ ret.kind # "accept" => ret.kind = "reject"
    /\ ret = validate_rating_input(Strip(call.line))
    /\ ret = prompt_rating_step(call.line)

\* the Add prompt takes 1e1, which is 10, the largest rating
C10_Witness ==
  /\ call.op = "prompt_rating"
  /\ call.line = <<"1", "e", "1">>
  /\ ret = Accept(<<"1", "0">>)

\* two parsed numbers of the same value
SameNumber(a, b) ==
  /\ a.kind = "num" /\ b.kind = "num"
  /\ \/ a.m = 0 /\ b.m = 0
     \/ a.neg = b.neg /\ Canon(a.m, a.e) = Canon(b.m, b.e)

\* a parsed number without a fractional part
Integral(r) == r.kind = "num" /\ (r.m = 0 \/ Canon(r.m, r.e).e >= 0)

\* C11: the text returned for an accepted rating parses to the value of the
\* text typed; for an integral value it is the integer form, digits 0-9 with
\* no decimal point; and the validator returns a returned text unchanged.
C11_RatingRoundTrip ==
  (call.op \in RatingOps /\ Strip(call.line) # <<>> /\ ret.kind = "accept") =>
    /\ SameNumber(ParseFloat(ret.value), ParseFloat(Strip(call.line)))
    /\ Integral(ParseFloat(Strip(call.line))) => PlainDigits(ret.value)
    /\ validate_rating_input(ret.value) = Accept(ret.value)

\* 7.0 is returned as 7
C11_Witness ==
  /\ call.op = "validate_rating_input"
  /\ call.line = <<"7", ".", "0">>
  /\ ret = Accept(<<"7">>)

WatchedOps == {"validate_watched_input", "prompt_watched", "edit_watched"}

\* the letter a text stands for once trimmed and put in upper case: Y, N, or
\* nothing
WatchedLetter(t) ==
  IF Len(Strip(t)) = 1 /\ Strip(t)[1] \in {"y", "Y"} THEN <<"Y">>
  ELSE IF Len(Strip(t)) = 1 /\ Strip(t)[1] \in {"n", "N"} THEN <<"N">>
  ELSE <<>>

\* C12: validate_watched accepts a text exactly when, trimmed and in upper
\* case, it is Y or N, and returns that letter; every other text is rejected,
\* the empty text, yes and 1 among them. (In Edit the empty line never comes
\* to the validator: it keeps the current value.)
C12_WatchedYN ==
  (call.op \in WatchedOps /\ (call.op = "edit_watched" => Strip(call.line) # <<>>)) =>
    /\ ret.kind = "accept" <=> WatchedLetter(call.line) # <<>>
    /\ ret.kind = "accept" => ret.value = WatchedLetter(call.line)
    /\ ret.kind # "accept" => ret.kind = "reject"
    /\ call.line \in {<<>>, <<"y", "e", "s">>, <<"1">>} => ret.kind = "reject"

\* " y" is taken as Y by the validator
C12_Witness ==
  /\ call.op = "validate_watched_input"
  /\ call.line = <<" ", "y">>
  /\ ret = Accept(<<"Y">>)

\* C13: the rating and the year checks, given the empty text, accept it and
\* return the empty text: the validators handed "", the Add prompts and the
\* Edit prompts on an empty line.
C13_EmptyAccepted ==
  (call.op \in RatingOps \cup YearOps /\ Strip(call.line) = <<>>
   /\ (call.op \in {"validate_rating_input", "validate_year_input"}
         => call.line = <<>>)) =>
    ret = Accept(<<>>)

(***************************************************************************)
(* SpecSession: one run of main() on a movie store that holds its header   *)
(* only. An action is a handler with the lines typed while it runs.        *)
(***************************************************************************)
\* The fields a session's user types values into: the title and the flag, the
\* director and the genre, the rating, or the year. The other fields get one
\* line each.
Foci == {"title", "text", "rating", "year"}

Among(f, g, lines, other) == IF f = g THEN lines ELSE {other}

\* what is typed at the prompts of add_movie
AddLinesFor(f) ==
  [movie_name : Among(f, "title", {Line(<<"x">>), <<<<>>, <<" ", "z">>>>}, Line(<<"x">>)),
   watched : Among(f, "title", {<<<<"1">>, <<"y">>>>, Line(<<"N">>)}, Line(<<"n">>)),
   director : Among(f, "text", {<<>>, <<"d", " ">>}, <<>>),
   genre : Among(f, "text", {<<>>, <<"g">>}, <<>>),
   rating : Among(f, "rating",
                  {Line(<<>>), <<<<"1", "1">>, <<"7", ".", "0">>>>, Line(<<".", "5">>)},
                  Line(<<>>)),
   year : Among(f, "year",
                {Line(<<>>), <<<<"1", "8", "8", "0">>, Y1999>>,
                 Line(<<"1", ArabicEight, "9", "9">>), Line(<<SuperTwo>>)},
                Line(<<>>))]

\* what is typed at the prompts of the Edit branch; an empty line keeps the value
EditLinesFor(f) ==
  [movie_name : Among(f, "title", {Line(<<>>), Line(<<"z">>)}, Line(<<>>)),
   watched : Among(f, "title", {Line(<<>>), <<<<"0">>, <<"y">>>>, Line(<<"n">>)}, Line(<<>>)),
   director : Among(f, "text", {Line(<<>>), Line(<<" ">>), Line(<<"e">>)}, Line(<<>>)),
   genre : Among(f, "text", {Line(<<>>), Line(<<" ", "h">>)}, Line(<<>>)),
   rating : Among(f, "rating",
                  {Line(<<>>), <<<<"-", "1">>, <<"1", "e", "1">>>>, Line(<<"7">>)},
                  Line(<<>>)),
   year : Among(f, "year",
                {Line(<<>>), <<<<"2", "1", "0", "1">>, Y1999>>,
                 Line(<<"1", ArabicEight, "9", "9">>), Line(<<SuperTwo>>)},
                Line(<<>>))]

ConfirmLines == {<<<<"o", "k">>, <<" ", "y">>>>, Line(<<"N">>)}

NameLines == {Alice, <<" ">> \o Demo, <<"b", "o", "b">>}
PasswordLines == {PwAlice, PwDemo}

HomeLines == {<<"1">>, <<" ", "2">>, <<"3">>, <<"Q">>, <<"e", "x", "i", "t">>, <<"4">>}
ListLines == {<<"b">>, <<"B", "A", "C", "K">>, <<"1">>, <<"2">>, <<"3">>, <<"0">>,
              <<"q">>, <<SuperTwo>>}
DetailLines == {<<>>, <<"b">>, <<"D">>, <<"d", "e", "l">>, <<"e">>, <<"E", "d", "i", "t">>,
                <<"q">>}

InitSession ==
  /\ store = <<>>
  /\ pre = <<>>
  /\ call = NoCall
  /\ ret = NoRet
  /\ pc = "LoggedOut"
  /\ user = <<>>
  /\ movies = <<>>
  /\ selected = NoMovie
  /\ focus \in Foci
  /\ IdleAdd

Did(op, kind) == call' = [op |-> op] /\ ret' = [kind |-> kind]

\* authenticate: one pass of its loop
Login ==
  /\ pc = "LoggedOut"
  /\ \E n \in NameLines, p \in PasswordLines :
       \E o \in {authenticate_step(SeedUsers, n, p)} :
       /\ call' = [op |-> "login", name |-> n, password |-> p]
       /\ IF o.kind = "accept"
          THEN pc' = "Home" /\ user' = o.value /\ ret' = [kind |-> "ok"]
          ELSE pc' = "LoggedOut" /\ user' = user /\ ret' = [kind |-> "failed"]
  /\ UNCHANGED <<store, pre, movies, selected, focus, addVars>>

\* home_menu, 1: view_movies begins
HomeView ==
  /\ pc = "Home"
  /\ \E line \in HomeLines : Lower(Strip(line)) = <<"1">>
  /\ LET e == EnterList(store, user, "ViewList") IN
     pc' = e.pc /\ movies' = e.movies
  /\ Did("view", "list")
  /\ UNCHANGED <<store, pre, user, selected, focus, addVars>>

\* home_menu, 2: add_movie from its first prompt to its end
HomeAdd ==
  /\ pc = "Home"
  /\ \E line \in HomeLines : Lower(Strip(line)) = <<"2">>
  /\ Len(store) < MaxSessRows
  /\ \E inp \in AddLinesFor(focus) :
       \E r \in {add_movie(store, user, inp)} :
       /\ r.status \in {"done", "raise"}
       /\ store' = r.file
       /\ pc' = IF r.status = "raise" THEN "Crashed" ELSE "Home"
       /\ Did("add", r.status)
  /\ UNCHANGED <<pre, user, movies, selected, focus, addVars>>

\* home_menu, 3: delete_movie_from_home begins
HomeDelete ==
  /\ pc = "Home"
  /\ \E line \in HomeLines : Lower(Strip(line)) = <<"3">>
  /\ LET e == EnterList(store, user, "DeleteList") IN
     pc' = e.pc /\ movies' = e.movies
  /\ Did("delete menu", "list")
  /\ UNCHANGED <<store, pre, user, selected, focus, addVars>>

\* a Home that knows q only
QuitWords_OnlyQ == {<<"q">>}

QuitWords == {<<"q">>, <<"q", "u", "i", "t">>, <<"e", "x", "i", "t">>}
BackWords == {<<"b">>, <<"b", "a", "c", "k">>}
DeleteWords == {<<"d">>, <<"d", "e", "l">>, <<"d", "e", "l", "e", "t", "e">>}
EditWords == {<<"e">>, <<"e", "d", "i", "t">>}

\* home_menu, q / quit / exit
HomeQuit ==
  /\ pc = "Home"
  /\ \E line \in HomeLines :
       /\ Lower(Strip(line)) \in QuitWords
       /\ call' = [op |-> "quit", line |-> line]
  /\ ret' = [kind |-> "bye"]
  /\ pc' = "Quit"
  /\ UNCHANGED <<store, pre, user, movies, selected, focus, addVars>>

\* home_menu, anything else
HomeInvalid ==
  /\ pc = "Home"
  /\ \E line \in HomeLines :
       /\ Lower(Strip(line)) \notin {<<"1">>, <<"2">>, <<"3">>} \cup QuitWords
       /\ call' = [op |-> "home", line |-> line]
  /\ ret' = [kind |-> "invalid"]
  /\ UNCHANGED <<store, pre, pc, user, movies, selected, focus, addVars>>

\* the list screen of view_movies. The list is not read again before the top
\* of the loop loads it anew, so the details screen is entered without it.
ViewListChoice ==
  /\ pc = "ViewList"
  /\ \E line \in ListLines :
       \E c \in {ListChoice(line, movies)},
          e \in {EnterList(store, user, "ViewList")} :
       /\ CASE c.kind = "back" ->
                 pc' = "Home" /\ movies' = <<>> /\ selected' = selected
            [] c.kind = "select" ->
                 pc' = "Details" /\ movies' = <<>> /\ selected' = movies[c.idx]
            [] c.kind = "raise" ->
                 pc' = "Crashed" /\ movies' = <<>> /\ selected' = selected
            [] OTHER ->
                 pc' = e.pc /\ movies' = e.movies /\ selected' = selected
       /\ call' = [op |-> "list", line |-> line]
       /\ ret' = [kind |-> c.kind]
  /\ UNCHANGED <<store, pre, user, focus, addVars>>

\* the details screen, Enter / b / back: back to the list, loaded anew
DetailsBack ==
  /\ pc = "Details"
  /\ \E line \in DetailLines : Lower(Strip(line)) \in {<<>>} \cup BackWords
  /\ LET e == EnterList(store, user, "ViewList") IN
     pc' = e.pc /\ movies' = e.movies
  /\ selected' = NoMovie
  /\ Did("details", "back")
  /\ UNCHANGED <<store, pre, user, focus, addVars>>

\* the details screen, d / del / delete, with the answer to the confirmation
DetailsDelete ==
  /\ pc = "Details"
  /\ \E line \in DetailLines : Lower(Strip(line)) \in DeleteWords
  /\ \E answer \in ConfirmLines :
       \E yes \in {confirm_yes_no(answer)},
          d \in {delete_movie_record(store, user, selected)} :
       \E e \in {EnterList(d.file, user, "ViewList")} :
       /\ yes.kind = "accept"
       /\ IF yes.value
          THEN /\ store' = d.file
               /\ pc' = e.pc
               /\ movies' = e.movies
               /\ selected' = NoMovie
               /\ call' = [op |-> "delete", answer |-> answer]
               /\ ret' = [kind |-> IF d.ret THEN "deleted" ELSE "not found"]
          ELSE /\ UNCHANGED <<store, pc, movies, selected>>
               /\ call' = [op |-> "delete", answer |-> answer]
               /\ ret' = [kind |-> "canceled"]
  /\ UNCHANGED <<pre, user, focus, addVars>>

\* the details screen, e / edit: the six prompts and the confirmation
DetailsEdit ==
  /\ pc = "Details"
  /\ \E line \in DetailLines : Lower(Strip(line)) \in EditWords
  /\ \E inp \in EditLinesFor(focus), answer \in ConfirmLines :
       \E r \in {edit_movie(store, user, selected, inp, answer)} :
       /\ r.status # "waiting"
       /\ store' = r.file
       /\ selected' = r.selected
       /\ pc' = IF r.status = "raise" THEN "Crashed" ELSE "Details"
       /\ call' = [op |-> "edit",
                   answer |-> IF r.status = "raise" THEN <<>> ELSE answer]
       /\ ret' = [kind |-> r.status]
  /\ UNCHANGED <<pre, user, movies, focus, addVars>>

\* the details screen, anything else
DetailsInvalid ==
  /\ pc = "Details"
  /\ \E line \in DetailLines :
       /\ Lower(Strip(line)) \notin {<<>>} \cup BackWords \cup DeleteWords \cup EditWords
       /\ call' = [op |-> "details", line |-> line]
  /\ ret' = [kind |-> "invalid"]
  /\ UNCHANGED <<store, pre, pc, user, movies, selected, focus, addVars>>

\* the list screen of delete_movie_from_home, with the answer to the
\* confirmation when an entry is chosen
DeleteListChoice ==
  /\ pc = "DeleteList"
  /\ \E line \in ListLines, answer \in ConfirmLines :
       \E c \in {ListChoice(line, movies)},
          yes \in {confirm_yes_no(answer)},
          e \in {EnterList(store, user, "DeleteList")} :
       /\ yes.kind = "accept"
       /\ CASE c.kind = "back" ->
                 pc' = "Home" /\ movies' = <<>> /\ store' = store
                 /\ call' = [op |-> "delete menu", line |-> line]
                 /\ ret' = [kind |-> "back"]
            [] c.kind = "select" ->
                 /\ pc' = "Home" /\ movies' = <<>>
                 /\ IF yes.value
                    THEN \E d \in {delete_movie_record(store, user, movies[c.idx])} :
                           /\ store' = d.file
                           /\ call' = [op |-> "delete menu", idx |-> c.idx,
                                       answer |-> answer]
                           /\ ret' = [kind |-> IF d.ret THEN "deleted"
                                                ELSE "not found"]
                    ELSE /\ store' = store
                         /\ call' = [op |-> "delete menu", idx |-> c.idx,
                                     answer |-> answer]
                         /\ ret' = [kind |-> "canceled"]
            [] c.kind = "raise" ->
                 pc' = "Crashed" /\ movies' = <<>> /\ store' = store
                 /\ call' = [op |-> "delete menu", line |-> line]
                 /\ ret' = [kind |-> "raise"]
            [] OTHER ->
                 pc' = e.pc /\ movies' = e.movies /\ store' = store
                 /\ call' = [op |-> "delete menu", line |-> line]
                 /\ ret' = [kind |-> "invalid"]
  /\ UNCHANGED <<pre, user, selected, focus, addVars>>

\* movies.csv is a file other programs can write: while the session waits at
\* a prompt, the first row of the store is taken out by someone else
External ==
  /\ pc \in {"Home", "ViewList", "Details", "DeleteList"}
  /\ store # <<>>
  /\ store' = Tail(store)
  /\ Did("external", "removed")
  /\ UNCHANGED <<pre, pc, user, movies, selected, focus, addVars>>

NextSession ==
  \/ External
  \/ Login
  \/ HomeView \/ HomeAdd \/ HomeDelete \/ HomeQuit \/ HomeInvalid
  \/ ViewListChoice
  \/ DetailsBack \/ DetailsDelete \/ DetailsEdit \/ DetailsInvalid
  \/ DeleteListChoice

SpecSession == InitSession /\ [][NextSession]_vars

\* C7: from a store with its header only, whatever the sessions add, edit
\* (saved or not) and delete, every row of the store has a title that is not
\* empty and a watched flag that is "Y" or "N".
C7_TitleAndWatched ==
  \A i \in 1..Len(store) :
    /\ store[i].movie_name # <<>>
    /\ store[i].watched \in {<<"Y">>, <<"N">>}

\* an Edit was saved on one of two rows; the row added after a second try at
\* the title and the flag is in the store
C7_Witness ==
  /\ call.op = "edit" /\ ret.kind = "updated"
  /\ Len(store) = 2
  /\ \E i \in 1..2 : store[i].movie_name = <<"z">> /\ store[i].watched = <<"N">>
  /\ \E i \in 1..2 : store[i].watched = <<"Y">>

\* a rating as the data model wants it: the text of a number in [0,10]
PlainRating(t) == ValueInRange(ParseFloat(t))

\* C8: from a store with its header only, whatever is typed in Add and Edit,
\* every rating of the store is empty or the text of a number in [0,10], and
\* every year is empty or a text of the digits 0-9 with a value in 1888..2100.
C8_RatingAndYear ==
  \A i \in 1..Len(store) :
    /\ store[i].rating = <<>> \/ PlainRating(store[i].rating)
    /\ store[i].year = <<>> \/ PlainYear(store[i].year)

\* C14: no text typed at a prompt of Add or Edit ends the session: the prompt
\* takes the value or asks again, and the handler comes to its end.
C14_ValidationNeverFatal ==
  call.op \in {"add", "edit"} => ret.kind # "raise" /\ pc # "Crashed"

\* the pairs of users.csv as main() seeds it
Credentials == {<<Demo, PwDemo>>, <<Alice, PwAlice>>}

\* C15: a login succeeds exactly on a username of the credentials typed with
\* its password, and then the session is at Home as that user; every other
\* pair leaves it logged out; whatever was tried before, a logged-out session
\* can still log in with a correct pair.
C15_LoginOnlyOnMatch ==
  /\ call.op = "login" =>
       /\ ret.kind = "ok" <=> <<Strip(call.name), Strip(call.password)>> \in Credentials
       /\ ret.kind = "ok" => pc = "Home" /\ user = Strip(call.name)
       /\ ret.kind # "ok" => ret.kind = "failed" /\ pc = "LoggedOut"
  /\ pc # "LoggedOut" => \E c \in Credentials : c[1] = user
  /\ pc = "LoggedOut" => ENABLED (Login /\ pc' = "Home")

\* alice typed with the password of demo was turned away, and the prompt is
\* there again
C15_Witness ==
  /\ call.op = "login"
  /\ call.name = Alice /\ call.password = PwDemo
  /\ ret.kind = "failed"
  /\ pc = "LoggedOut"

\* the answer that ended a confirmation: its last line, trimmed, either case
Answered(lines, letters) ==
  /\ lines # <<>>
  /\ Len(Strip(lines[Len(lines)])) = 1
  /\ Strip(lines[Len(lines)])[1] \in letters

\* a step of Edit or of a Delete that came to its confirmation
Confirmed == {"edit", "delete", "delete menu"}

\* C16: Edit, Delete from the details and Delete from Home change the store
\* only when the confirmation was answered Y; answered N they leave the
\* store as it was, and a canceled Edit leaves the selected record as it was.
C16_OnlyAfterYes ==
  [][(call'.op \in Confirmed /\ "answer" \in DOMAIN call') =>
       /\ store' # store => Answered(call'.answer, {"y", "Y"})
       /\ Answered(call'.answer, {"n", "N"}) =>
            /\ store' = store
            /\ ret'.kind = "canceled"
            /\ call'.op = "edit" => selected' = selected]_vars

\* an Edit was answered N: the session is back at the details of the record,
\* which the store holds
C16_Witness ==
  /\ call.op = "edit" /\ ret.kind = "canceled"
  /\ Answered(call.answer, {"n", "N"})
  /\ pc = "Details"
  /\ selected.movie_name = <<"x">>
  /\ \E i \in 1..Len(store) : store[i].movie_name = <<"x">>

ListScreens == {"ViewList", "DeleteList"}

\* C17: every step of the session that ends at a list screen (from Home, back
\* from the details, after a delete, after an invalid choice) shows the
\* records load_movies_for_user gives on the store as it is then, rows taken
\* out by someone else since the last screen included.
C17_ListIsReloaded ==
  [][(call'.op # "external" /\ pc' \in ListScreens) =>
       movies' = load_movies_for_user(store', user')]_vars

\* a Delete from the details found its record gone, taken out by someone
\* else, and the list shown next is the one record the store still has
C17_Witness ==
  /\ call.op = "delete" /\ ret.kind = "not found"
  /\ pc = "ViewList"
  /\ Len(movies) = 1
  /\ movies = load_movies_for_user(store, user)

\* a line that is q, quit or exit once trimmed, in any letter case
IsQuitToken(line) ==
  Lower(Strip(line)) \in {<<"q">>, <<"q", "u", "i", "t">>, <<"e", "x", "i", "t">>}

\* what holds of the states for C18
QuitStates ==
  /\ pc = "Quit" => call.op = "quit" /\ ~ENABLED NextSession
  /\ call.op = "quit" => pc = "Quit" /\ IsQuitToken(call.line)
  /\ call.op = "home" => ~IsQuitToken(call.line)
  /\ (call.op \in {"list", "details", "delete menu"} /\ "line" \in DOMAIN call
      /\ IsQuitToken(call.line)) =>
       ret.kind = "invalid" /\ pc \in {"Home", "Details"} \cup ListScreens
  /\ pc \in ListScreens =>
       ENABLED ((ViewListChoice \/ DeleteListChoice) /\ pc' = "Home")
  /\ pc = "Details" => ENABLED (DetailsBack /\ pc' \in {"ViewList", "Home"})

\* C18: the session ends (Quit) only from Home, on q, quit or exit in any
\* letter case, and nothing follows; typed at a list or at the details these
\* words are an invalid choice; a list goes back to Home on b, and the details
\* go back to the list (to Home when no record is left).
C18_QuitOnlyFromHome ==
  /\ []QuitStates
  /\ [][pc' = "Quit" => pc \in {"Home", "Quit"}]_vars

\* Q in upper case ended a session that had added a record
C18_Witness ==
  /\ call.op = "quit" /\ call.line = <<"Q">>
  /\ pc = "Quit"
  /\ Len(store) = 1

\* the store holds a row of the user with the seven fields of mv as they are
InStore(file, u, mv) ==
  \E i \in 1..Len(file) :
    file[i].username = u /\ \A k \in FieldNames : file[i][k] = mv[k]

\* update_movie_record and delete_movie_record find a row for mv
Found(file, u, mv) == \E i \in 1..Len(file) : ScanHit(file[i], u, mv)

\* what holds of the state a saved Edit leaves
SavedEditStates ==
  (call.op = "edit" /\ ret.kind = "updated") =>
    /\ pc = "Details"
    /\ InStore(store, user, selected)
    /\ Found(store, user, selected)
    /\ delete_movie_record(store, user, selected).ret
    /\ \A inp \in EditLinesFor(focus), answer \in ConfirmLines :
         edit_movie(store, user, selected, inp, answer).status # "not found"

\* C20: after an Edit that was saved, selected is field for field a row of
\* the user in the store, and the next Edit or Delete from the details finds
\* it; as long as selected has a row in the store, every step of the details
\* screen other than a change made by someone else reports no not-found and
\* leaves selected with a row in the store while the screen stays.
C20_SavedEditStaysFound ==
  /\ []SavedEditStates
  /\ [][(pc = "Details" /\ Found(store, user, selected)
         /\ call'.op # "external") =>
          /\ ret'.kind # "not found"
          /\ pc' = "Details" => Found(store', user', selected')]_vars

\* a saved Edit changed the record shown (its rating is 10, which only Edit
\* types, as 1e1): the store holds it, a Delete of it finds its row and some
\* further Edit of it is saved
C20_Witness ==
  /\ call.op = "edit" /\ ret.kind = "updated"
  /\ pc = "Details"
  /\ selected.rating = <<"1", "0">>
  /\ InStore(store, user, selected)
  /\ delete_movie_record(store, user, selected).ret
  /\ \E inp \in EditLinesFor(focus), answer \in ConfirmLines :
       \E r \in {edit_movie(store, user, selected, inp, answer)} :
         r.status = "updated" /\ r.selected # selected

\* the six fields Edit asks for
EditedFields == FieldNames \ {"username"}

\* the lines typed at one prompt of Edit begin with Enter alone (blanks or not)
KeptField(lines) == lines # <<>> /\ Strip(lines[1]) = <<>>

\* Enter alone was typed at every prompt of Edit
AllKept(inp) == \A k \in EditedFields : KeptField(inp[k])

\* what holds, at the details of a record, of every Edit that can be typed
EditKeepStates ==
  pc = "Details" =>
    \A inp \in EditLinesFor(focus), answer \in ConfirmLines :
      \E r \in {edit_movie(store, user, selected, inp, answer)} :
        r.status \in {"updated", "canceled", "not found"} =>
          /\ \A k \in EditedFields :
               /\ KeptField(inp[k]) /\ r.status = "updated" =>
                    r.selected[k] = selected[k]
               /\ selected[k] # <<>> => r.selected[k] # <<>>
          /\ AllKept(inp) => r.file = store

\* C21: Enter alone at a prompt of Edit keeps the value of its field, so no
\* Edit step empties a field of a row that was not empty (director, genre,
\* rating and year, and title and watched as well); an Edit step keeps the
\* number, the order and the owner of the rows; an Edit that is not saved, and
\* a saved Edit that leaves every field as it was, leave the store as it was.
C21_EditNeverEmpties ==
  /\ []EditKeepStates
  /\ [][call'.op = "edit" =>
          /\ Len(store') = Len(store)
          /\ \A i \in 1..Len(store) :
               /\ store'[i].username = store[i].username
               /\ \A k \in EditedFields :
                    store[i][k] # <<>> => store'[i][k] # <<>>
          /\ ret'.kind # "updated" => store' = store
          /\ (ret'.kind = "updated" /\ selected' = selected) =>
               store' = store]_vars

\* a saved Edit gave the genre h, which only Edit types, to a record whose
\* director d was typed at Add, which only Add types: the director is still
\* there, and Enter alone at every prompt, saved, would leave the store as
\* it is
C21_Witness ==
  /\ call.op = "edit" /\ ret.kind = "updated"
  /\ pc = "Details"
  /\ selected.director = <<"d">> /\ selected.genre = <<"h">>
  /\ InStore(store, user, selected)
  /\ \E inp \in EditLinesFor(focus), answer \in ConfirmLines :
       \E r \in {edit_movie(store, user, selected, inp, answer)} :
         AllKept(inp) /\ r.status = "updated" /\ r.file = store

====
